---------------------------- MODULE Spec2Model ----------------------------
(***************************************************************************)
(* GPS L1 C/A DLL + PLL tracking block                                     *)
(* (src/algorithms/tracking/gnuradio_blocks/                               *)
(*  gps_l1_ca_dll_pll_tracking_cc.cc).                                     *)
(*                                                                         *)
(* Numbers.  The block computes in double precision; the model computes    *)
(* in integers:                                                            *)
(*   - sample counts (d_sample_counter, d_current_prn_length_samples,      *)
(*     consume_each arguments) are integers, as in the code;               *)
(*   - fractional sample quantities (d_acq_code_phase_samples,             *)
(*     d_rem_code_phase_samples) are in 1/1000 sample;                     *)
(*   - chips (d_code_phase_chips) are in 1/1000 chip, d_code_freq_chips    *)
(*     in 1/1000 chip per second;                                          *)
(*   - Doppler and intermediate frequency are whole Hz;                    *)
(*   - carrier phases are in 1/1000 cycle (2*pi rad = 1000), so that       *)
(*     fmod(x, GPS_TWO_PI) is Fmod(x, 1000);                               *)
(*   - the carrier lock test is in 1/100 (threshold 0.85 = 85).            *)
(* Correlator outputs are abstracted to three classes: "zero" (0 + 0j),    *)
(* "sig" (a finite non-zero value) and "nan".                              *)
(* Debug printing, logging and the optional dump file are left out: they   *)
(* write no tracking state (d_last_seg is read by the debug output only).  *)
(***************************************************************************)
EXTENDS Integers, Sequences, FiniteSets, TLC

(***************************************************************************)
(* Program constants                                                       *)
(***************************************************************************)
CN0_ESTIMATION_SAMPLES == 20
MINIMUM_VALID_CN0 == 25
MAXIMUM_LOCK_FAIL_COUNTER == 50
\* 0.85, in 1/100
CARRIER_LOCK_THRESHOLD == 85
\* GPS_L1_CA.h
GPS_L1_CA_CODE_RATE_HZ == 1023000
GPS_L1_CA_CODE_LENGTH_CHIPS == 1023
GPS_L1_FREQ_HZ == 1575420000
\* what ControlMessageFactory::GetQueueMessage(d_channel, 2) carries
LOSS_OF_LOCK == 2

(***************************************************************************)
(* Bounds of the model                                                     *)
(***************************************************************************)
\* general_work is invoked while d_sample_counter < MaxBlocks * d_vector_length
MaxBlocks == 7
\* start_tracking is invoked at most MaxStarts times
MaxStarts == 2
\* a call of general_work without input is one of the first MaxNoInputWork
MaxNoInputWork == 2
\* in SpecLock general_work is invoked at most MaxLockWork times, at most
\* MaxIdleBeforeStart of them before the first start_tracking
MaxLockWork == 1120
MaxIdleBeforeStart == 1
\* ... and a channel whose signal is present is followed for MaxLockedWork
\* invocations after its start
MaxLockedWork == 45
\* in SpecNaN general_work is invoked at most MaxNaNWork times and the NaN
\* burst starts within MaxFaultAt invocations of start_tracking
MaxNaNWork == 180
MaxFaultAt == 3
\* in SpecRestart general_work is invoked at most MaxRestartWork times and
\* start_tracking at most MaxRestarts times
MaxRestartWork == 50
\* in SpecRace general_work is invoked at most MaxRaceWork times
MaxRaceWork == 1352
\* ... at most MaxRaceLocked of them while the signal of the session is present
MaxRaceLocked == 280
MaxRaceBlocks == 2
\* in SpecPullIn the channel is started after at most MaxIdlePullIn idle blocks
MaxIdlePullIn == 3
MaxRestarts == 2

(***************************************************************************)
(* C arithmetic on integers                                                *)
(***************************************************************************)
\* integer division truncating toward zero (C '/', and double division
\* followed by truncation of the model's last digit)
Quot(a, b) == IF a >= 0 THEN a \div b ELSE -((-a) \div b)

\* fmod(a, b), b > 0: the remainder has the sign of a
Fmod(a, b) == IF a >= 0 THEN a % b ELSE -((-a) % b)

\* round() of a quantity given in 1/1000: nearest integer, halves away from zero
Round(x) == IF x >= 0 THEN (x + 500) \div 1000 ELSE -((-x + 500) \div 1000)

\* fd / (GPS_L1_FREQ_HZ + fd), in 1e-9
DopplerPpb(fd) == Quot(fd * 100000, (GPS_L1_FREQ_HZ + fd) \div 10000)

\* x * ppb / 1e6 without leaving 32 bits
MulPpm(x, ppb) == Quot(Quot(x, 1000) * ppb, 1000) + Quot(Fmod(x, 1000) * ppb, 1000000)

\* x * a / b without leaving 32 bits
MulDiv(x, a, b) == Quot(x, b) * a + Quot(Fmod(x, b) * a, b)

(***************************************************************************)
(* State                                                                   *)
(***************************************************************************)
VARIABLES
    \* configuration, set by the constructor and by set_channel
    d_fs_in, d_vector_length, d_if_freq, d_queue, d_channel,
    \* the noise bandwidths (Hz) given to d_carrier_loop_filter and
    \* d_code_loop_filter, and the early-late spacing in 1/1000 chip
    d_carrier_loop_filter, d_code_loop_filter, d_early_late_spc_chips,
    \* the acquisition record d_acquisition_gnss_synchro points to
    d_acquisition_gnss_synchro,
    \* loop state
    d_enable_tracking, d_pull_in, d_sample_counter,
    d_acq_sample_stamp, d_acq_code_phase_samples, d_acq_carrier_doppler_hz,
    d_carrier_doppler_hz, d_code_freq_chips, d_code_phase_chips,
    d_rem_code_phase_samples, d_rem_carr_phase_rad,
    d_acc_carrier_phase_rad, d_acc_code_phase_secs,
    d_current_prn_length_samples,
    \* C/N0 estimation and lock detector
    d_cn0_estimation_counter, d_Prompt_buffer, d_CN0_SNV_dB_Hz,
    d_carrier_lock_test, d_carrier_lock_fail_counter,
    \* the indices of d_Prompt_buffer written since the last estimate (or
    \* since construction)
    prompt_written,
    \* correlator output *d_Prompt
    d_Prompt,
    \* what the last invocation of general_work did, as the scheduler and the
    \* neighbours of the block see it: the messages handed to d_queue, the
    \* record written to out[0], the argument of consume_each, the value
    \* returned, and the branch taken
    queue_msgs, out, consumed, produced, path,
    \* history: the number of general_work invocations, ninput_items[0] of the
    \* last one, the number of start_tracking calls and the value of n_work at
    \* the last of them (-1: none yet)
    n_work, available, n_starts, start_at,
    \* the received signal ("present" / "absent") and the number of
    \* general_work invocations since it went absent
    signal, dropout_blocks,
    \* invocations in flight when general_work and start_tracking run in
    \* different threads: where an idle general_work is ("done": none in
    \* flight), its local next_prn_length_samples, and which of its writes
    \* a start_tracking has still to make ("done": none in flight)
    work_pc, next_prn_length_samples, start_pc

cfg_vars == <<d_fs_in, d_vector_length, d_if_freq, d_queue, d_channel,
              d_carrier_loop_filter, d_code_loop_filter, d_early_late_spc_chips>>

acq_vars == <<d_acq_sample_stamp, d_acq_code_phase_samples, d_acq_carrier_doppler_hz>>

loop_vars == <<d_carrier_doppler_hz, d_code_freq_chips, d_code_phase_chips,
               d_rem_code_phase_samples, d_rem_carr_phase_rad,
               d_acc_carrier_phase_rad, d_acc_code_phase_secs>>

cn0_vars == <<d_cn0_estimation_counter, d_Prompt_buffer, d_CN0_SNV_dB_Hz,
              d_carrier_lock_test, d_carrier_lock_fail_counter, prompt_written>>

io_vars == <<queue_msgs, out, consumed, produced, path>>

hist_vars == <<n_work, available, n_starts, start_at>>

env_vars == <<signal, dropout_blocks>>

race_vars == <<work_pc, next_prn_length_samples, start_pc>>

vars == <<cfg_vars, d_acquisition_gnss_synchro, d_enable_tracking, d_pull_in,
          d_sample_counter, acq_vars, loop_vars, d_current_prn_length_samples,
          cn0_vars, d_Prompt, io_vars, hist_vars, env_vars, race_vars>>

(***************************************************************************)
(* Records                                                                 *)
(***************************************************************************)
\* d_acquisition_gnss_synchro = 0
NullSynchro == [null |-> TRUE]

\* Gnss_Synchro(): the record general_work starts from
Gnss_Synchro ==
    [System |-> "", PRN |-> 0,
     Acq_delay_samples |-> 0, Acq_doppler_hz |-> 0, Acq_samplestamp_samples |-> 0,
     Prompt |-> "zero", Tracking_timestamp_secs |-> <<0, 0>>,
     Carrier_phase_rads |-> 0, Carrier_Doppler_hz |-> 0, Code_phase_secs |-> 0,
     CN0_dB_hz |-> 0, Flag_valid_tracking |-> FALSE, Flag_valid_pseudorange |-> FALSE]

\* the record acquisition fills for the channel: delay in 1/1000 sample
AcqRecord(delay, doppler, stamp, valid) ==
    [Gnss_Synchro EXCEPT !.System = "G", !.PRN = 1,
                         !.Acq_delay_samples = delay, !.Acq_doppler_hz = doppler,
                         !.Acq_samplestamp_samples = stamp,
                         !.Flag_valid_tracking = valid]

(***************************************************************************)
(* Constructor                                                             *)
(***************************************************************************)
Constructor(if_freq, fs_in, vector_length, queue, pll_bw_hz, dll_bw_hz, early_late_space_chips) ==
    /\ d_queue = queue
    /\ d_code_loop_filter = dll_bw_hz
    /\ d_carrier_loop_filter = pll_bw_hz
    /\ d_early_late_spc_chips = early_late_space_chips
    /\ d_if_freq = if_freq
    /\ d_fs_in = fs_in
    /\ d_vector_length = vector_length
    /\ d_code_freq_chips = GPS_L1_CA_CODE_RATE_HZ * 1000
    /\ d_rem_code_phase_samples = 0
    /\ d_rem_carr_phase_rad = 0
    /\ d_sample_counter = 0
    /\ d_acq_sample_stamp = 0
    /\ d_enable_tracking = FALSE
    /\ d_pull_in = FALSE
    /\ d_current_prn_length_samples = vector_length
    /\ d_cn0_estimation_counter = 0
    /\ d_Prompt_buffer = [i \in 0..(CN0_ESTIMATION_SAMPLES - 1) |-> "zero"]
    /\ prompt_written = {}
    /\ d_carrier_lock_test = 100
    /\ d_CN0_SNV_dB_Hz = 0
    /\ d_carrier_lock_fail_counter = 0
    /\ d_acquisition_gnss_synchro = NullSynchro
    /\ d_channel = 0
    /\ d_acq_code_phase_samples = 0
    /\ d_acq_carrier_doppler_hz = 0
    /\ d_carrier_doppler_hz = 0
    /\ d_acc_carrier_phase_rad = 0
    /\ d_acc_code_phase_secs = 0
    \* not set by the constructor; written by start_tracking before any read
    /\ d_code_phase_chips = 0
    \* the scalar allocated for the Prompt correlator output: written by
    \* every branch of general_work before it is read
    /\ d_Prompt = "zero"

(***************************************************************************)
(* set_channel, set_gnss_synchro                                           *)
(***************************************************************************)
set_channel(channel) ==
    /\ d_channel' = channel
    /\ UNCHANGED <<d_fs_in, d_vector_length, d_if_freq, d_queue,
                   d_carrier_loop_filter, d_code_loop_filter,
                   d_early_late_spc_chips, d_acquisition_gnss_synchro, d_enable_tracking, d_pull_in,
                   d_sample_counter, acq_vars, loop_vars,
                   d_current_prn_length_samples, cn0_vars, d_Prompt, io_vars,
                   hist_vars, race_vars>>

\* p_gnss_synchro is given as the record it points to when the block reads it
set_gnss_synchro(p_gnss_synchro) ==
    /\ d_acquisition_gnss_synchro' = p_gnss_synchro
    /\ UNCHANGED <<cfg_vars, d_enable_tracking, d_pull_in, d_sample_counter,
                   acq_vars, loop_vars, d_current_prn_length_samples, cn0_vars,
                   d_Prompt, io_vars, hist_vars, race_vars>>

(***************************************************************************)
(* start_tracking                                                          *)
(***************************************************************************)
\* T_prn_true_samples = GPS_L1_CA_CODE_LENGTH_CHIPS / GPS_L1_CA_CODE_RATE_HZ
\*                      * d_fs_in, in 1/1000 sample
T_prn_true_samples ==
    Quot((d_fs_in \div 1000) * GPS_L1_CA_CODE_LENGTH_CHIPS,
         GPS_L1_CA_CODE_RATE_HZ \div 1000) * 1000

\* T_prn_mod_samples: the code period at the code rate scaled by
\* radial_velocity = (GPS_L1_FREQ_HZ + doppler) / GPS_L1_FREQ_HZ
T_prn_mod_samples(doppler) ==
    T_prn_true_samples - MulPpm(T_prn_true_samples \div 1000, DopplerPpb(doppler))

\* T_prn_diff_seconds * N_prn_diff * d_fs_in
\*   = acq_trk_diff_samples * doppler / (GPS_L1_FREQ_HZ + doppler), in 1/1000 sample
code_phase_drift_samples(acq_trk_diff_samples, doppler) ==
    MulPpm(acq_trk_diff_samples, DopplerPpb(doppler))

corrected_acq_phase_samples(delay, doppler, acq_trk_diff_samples) ==
    LET c == Fmod(delay + code_phase_drift_samples(acq_trk_diff_samples, doppler),
                  T_prn_true_samples)
    IN  IF c < 0 THEN T_prn_mod_samples(doppler) + c ELSE c

\* GPS_L1_CA_CODE_RATE_HZ + doppler * GPS_L1_CA_CODE_RATE_HZ / GPS_L1_FREQ_HZ,
\* in 1/1000 chip per second (GPS_L1_FREQ_HZ = 1540 * GPS_L1_CA_CODE_RATE_HZ)
aided_code_freq_chips(doppler) ==
    GPS_L1_CA_CODE_RATE_HZ * 1000
        + Quot(doppler * 1000, GPS_L1_FREQ_HZ \div GPS_L1_CA_CODE_RATE_HZ)

\* faulty variant: the accumulators and the lock-fail counter are kept
start_tracking_keeping_accumulators ==
    /\ d_acquisition_gnss_synchro # NullSynchro
    /\ LET acq == d_acquisition_gnss_synchro
           acq_trk_diff_samples == d_sample_counter - acq.Acq_samplestamp_samples
           corrected == corrected_acq_phase_samples(acq.Acq_delay_samples,
                                                    acq.Acq_doppler_hz,
                                                    acq_trk_diff_samples)
       IN  /\ d_acq_carrier_doppler_hz' = acq.Acq_doppler_hz
           /\ d_acq_sample_stamp' = acq.Acq_samplestamp_samples
           /\ d_current_prn_length_samples' = Round(T_prn_mod_samples(acq.Acq_doppler_hz))
           /\ d_acq_code_phase_samples' = corrected
           /\ d_carrier_doppler_hz' = acq.Acq_doppler_hz
           /\ d_code_freq_chips' = aided_code_freq_chips(acq.Acq_doppler_hz)
           /\ d_code_phase_chips' = MulDiv(corrected, GPS_L1_CA_CODE_RATE_HZ \div 1000,
                                           d_fs_in \div 1000)
    /\ d_rem_code_phase_samples' = 0
    /\ d_pull_in' = TRUE
    /\ d_enable_tracking' = TRUE
    /\ n_starts' = n_starts + 1
    /\ start_at' = n_work
    /\ UNCHANGED <<cfg_vars, d_acquisition_gnss_synchro, d_sample_counter,
                   d_carrier_lock_fail_counter, d_acc_carrier_phase_rad,
                   d_acc_code_phase_secs, d_rem_carr_phase_rad,
                   d_cn0_estimation_counter, d_Prompt_buffer, d_CN0_SNV_dB_Hz,
                   d_carrier_lock_test, prompt_written, d_Prompt, io_vars,
                   n_work, available, race_vars>>

start_tracking ==
    /\ d_acquisition_gnss_synchro # NullSynchro
    /\ LET acq == d_acquisition_gnss_synchro
           acq_trk_diff_samples == d_sample_counter - acq.Acq_samplestamp_samples
           corrected == corrected_acq_phase_samples(acq.Acq_delay_samples,
                                                    acq.Acq_doppler_hz,
                                                    acq_trk_diff_samples)
       IN  /\ d_acq_carrier_doppler_hz' = acq.Acq_doppler_hz
           /\ d_acq_sample_stamp' = acq.Acq_samplestamp_samples
           /\ d_current_prn_length_samples' = Round(T_prn_mod_samples(acq.Acq_doppler_hz))
           /\ d_acq_code_phase_samples' = corrected
           /\ d_carrier_doppler_hz' = acq.Acq_doppler_hz
           /\ d_code_freq_chips' = aided_code_freq_chips(acq.Acq_doppler_hz)
           /\ d_code_phase_chips' = MulDiv(corrected, GPS_L1_CA_CODE_RATE_HZ \div 1000,
                                           d_fs_in \div 1000)
    /\ d_carrier_lock_fail_counter' = 0
    /\ d_rem_code_phase_samples' = 0
    /\ d_rem_carr_phase_rad' = 0
    /\ d_acc_carrier_phase_rad' = 0
    /\ d_acc_code_phase_secs' = 0
    /\ d_pull_in' = TRUE
    /\ d_enable_tracking' = TRUE
    /\ n_starts' = n_starts + 1
    /\ start_at' = n_work
    /\ UNCHANGED <<cfg_vars, d_acquisition_gnss_synchro, d_sample_counter,
                   d_cn0_estimation_counter, d_Prompt_buffer, d_CN0_SNV_dB_Hz,
                   d_carrier_lock_test, prompt_written, d_Prompt, io_vars,
                   n_work, available, race_vars>>

(***************************************************************************)
(* Collaborators of general_work whose code is in other files              *)
(***************************************************************************)
\* values a C/N0 estimate (dB-Hz) and a carrier lock test (1/100) can take
CN0Values == {0, 45}

LockTestValues == {0, 100}

AllZero(buffer) == \A i \in DOMAIN buffer : buffer[i] = "zero"

\* cn0_svn_estimator(d_Prompt_buffer, CN0_ESTIMATION_SAMPLES, ...): the set of
\* values it can return.  With every Prompt zero, M2 = M4 = 0, the noise power
\* is not positive and the estimate is reported as 0 (unreliable); for other
\* buffers the value depends on amplitudes the classes do not keep.
cn0_svn_estimator(buffer) == IF AllZero(buffer) THEN {0} ELSE CN0Values

\* carrier_lock_detector(d_Prompt_buffer, CN0_ESTIMATION_SAMPLES): NBD / NBP,
\* undefined (0 / 0) when every Prompt is zero
carrier_lock_detector(buffer) == LockTestValues

(***************************************************************************)
(* general_work                                                            *)
(***************************************************************************)
\* acq_trk_shif_correction_samples, in 1/1000 sample
acq_trk_shif_correction_samples ==
    LET acq_to_trk_delay_samples == d_sample_counter - d_acq_sample_stamp
    IN  (d_current_prn_length_samples
           - Fmod(acq_to_trk_delay_samples, d_current_prn_length_samples)) * 1000

\* faulty variant: the shift to the next code period is left out
samples_offset_without_shift == Round(d_acq_code_phase_samples)

samples_offset == Round(d_acq_code_phase_samples + acq_trk_shif_correction_samples)

\* d_code_phase_chips after "+= T * d_code_freq_chips" and fmod, in 1/1000 chip
next_code_phase_chips ==
    LET T_code_freq ==
            MulDiv(d_current_prn_length_samples * GPS_L1_CA_CODE_LENGTH_CHIPS,
                   1000, d_fs_in \div 1000)
            + Quot(d_current_prn_length_samples
                     * (d_code_freq_chips - GPS_L1_CA_CODE_RATE_HZ * 1000), d_fs_in)
    IN  Fmod(d_code_phase_chips + T_code_freq, GPS_L1_CA_CODE_LENGTH_CHIPS * 1000)

\* d_rem_code_phase_samples computed from the new d_code_phase_chips
next_rem_code_phase_samples ==
    LET r == GPS_L1_CA_CODE_LENGTH_CHIPS * 1000 - next_code_phase_chips
        rem_code_phase_chips ==
            IF 2 * r > GPS_L1_CA_CODE_LENGTH_CHIPS * 1000
            THEN r - GPS_L1_CA_CODE_LENGTH_CHIPS * 1000 ELSE r
    IN  MulDiv(rem_code_phase_chips, d_fs_in \div 1000, GPS_L1_CA_CODE_RATE_HZ \div 1000)

\* T_prn_samples = GPS_L1_CA_CODE_LENGTH_CHIPS / code_freq_chips * d_fs_in,
\* in 1/1000 sample
T_prn_samples(code_freq_chips) ==
    T_prn_true_samples
      - Quot((code_freq_chips - GPS_L1_CA_CODE_RATE_HZ * 1000)
               * (T_prn_true_samples \div 1000),
             code_freq_chips \div 1000)

\* faulty variant: K_blk_samples is the residual alone, without the period
next_prn_length_of_residual(code_freq_chips, rem_code_phase_samples) ==
    Round(rem_code_phase_samples)

\* round(K_blk_samples)
next_prn_length(code_freq_chips, rem_code_phase_samples) ==
    Round(T_prn_samples(code_freq_chips) + rem_code_phase_samples)

\* update_local_code: rem_code_phase_chips =
\* d_rem_code_phase_samples * (d_code_freq_chips / d_fs_in), in 1/1000 chip
rem_code_phase_chips ==
    MulDiv(d_rem_code_phase_samples, GPS_L1_CA_CODE_RATE_HZ \div 1000,
           d_fs_in \div 1000)
    + Quot(Quot(d_rem_code_phase_samples, 1000)
             * (d_code_freq_chips - GPS_L1_CA_CODE_RATE_HZ * 1000), d_fs_in)

\* update_local_code: what i additions of code_phase_step_fxp amount to, in
\* 1/1000 chip (the 2^-32 chip the fixed-point step loses is not modelled)
code_phase_step_chips(i) ==
    MulDiv(i * GPS_L1_CA_CODE_LENGTH_CHIPS, 1000, d_fs_in \div 1000)
    + Quot(i * (d_code_freq_chips - GPS_L1_CA_CODE_RATE_HZ * 1000), d_fs_in)

\* double_to_fxpt64 followed by ">> 32": the 32.32 fixed-point value keeps
\* the sign, and the arithmetic shift rounds toward minus infinity
fxpt64_integer_bits(phase_chips) == phase_chips \div 1000

\* update_local_code: the index into d_ca_code read for sample i of the
\* replica that starts early_late chips (1/1000) after the Prompt
ca_code_index(early_late, i) ==
    1 + fxpt64_integer_bits(-rem_code_phase_chips + early_late
                            + code_phase_step_chips(i))

\* d_rem_carr_phase_rad after the block
next_rem_carr_phase_rad(carrier_doppler_hz) ==
    Fmod(d_rem_carr_phase_rad + (d_if_freq + carrier_doppler_hz), 1000)

\* faulty variant: the estimate comes one block early
EstimateDueOneEarly == ~(d_cn0_estimation_counter < CN0_ESTIMATION_SAMPLES - 1)

\* the estimate is produced, instead of storing the Prompt, once the counter
\* has reached CN0_ESTIMATION_SAMPLES
EstimateDue == ~(d_cn0_estimation_counter < CN0_ESTIMATION_SAMPLES)

\* faulty variant: the C/N0 is not looked at
LockFailsOnLockTestOnly(cn0, lock_test) == lock_test < CARRIER_LOCK_THRESHOLD

LockFails(cn0, lock_test) ==
    lock_test < CARRIER_LOCK_THRESHOLD \/ cn0 < MINIMUM_VALID_CN0

\* faulty variant: the decrement is not floored at 0
CountedLockFailNoFloor(cn0, lock_test) ==
    IF lock_test < CARRIER_LOCK_THRESHOLD \/ cn0 < MINIMUM_VALID_CN0
    THEN d_carrier_lock_fail_counter + 1
    ELSE d_carrier_lock_fail_counter - 1

\* d_carrier_lock_fail_counter after the increment / decrement
CountedLockFail(cn0, lock_test) ==
    IF LockFails(cn0, lock_test)
    THEN d_carrier_lock_fail_counter + 1
    ELSE IF d_carrier_lock_fail_counter > 0
         THEN d_carrier_lock_fail_counter - 1
         ELSE d_carrier_lock_fail_counter

\* faulty variant: lock is declared lost one failure early
LossOfLockAtMaximum(fail_counter) == fail_counter >= MAXIMUM_LOCK_FAIL_COUNTER

LossOfLock(fail_counter) == fail_counter > MAXIMUM_LOCK_FAIL_COUNTER

\* d_queue->handle(cmf->GetQueueMessage(d_channel, 2)), when there is a queue
QueueAfterLossOfLock ==
    IF d_queue THEN Append(queue_msgs, <<d_channel, LOSS_OF_LOCK>>) ELSE queue_msgs

\* faulty variant: everything forecast asked for is consumed
TwoPeriodsConsumed == 2 * d_vector_length

\* consume_each(d_current_prn_length_samples) at the end of general_work
BlockLengthConsumed == d_current_prn_length_samples

\* faulty variant: the NaN block counts one code period
SampleCounterAfterNaNOnePeriod(samples_available) ==
    d_sample_counter + d_current_prn_length_samples

\* d_sample_counter = d_sample_counter + samples_available
SampleCounterAfterNaN(samples_available) == d_sample_counter + samples_available

\* faulty variant: the idle block does not count the samples it consumes
IdleBlockStalled ==
    /\ d_Prompt' = "zero"
    /\ out' = [Gnss_Synchro EXCEPT !.System = "G", !.Flag_valid_pseudorange = FALSE]
    /\ consumed' = d_current_prn_length_samples
    /\ produced' = 1
    /\ path' = "idle"
    /\ UNCHANGED <<d_enable_tracking, d_pull_in, d_sample_counter, loop_vars,
                   d_current_prn_length_samples, cn0_vars, queue_msgs>>

\* faulty variant: the idle block tries to track again
IdleBlockRetries ==
    /\ d_Prompt' = "zero"
    /\ out' = [Gnss_Synchro EXCEPT !.System = "G", !.Flag_valid_pseudorange = FALSE]
    /\ d_sample_counter' = d_sample_counter + d_current_prn_length_samples
    /\ consumed' = d_current_prn_length_samples
    /\ produced' = 1
    /\ path' = "idle"
    /\ d_enable_tracking' = (d_acquisition_gnss_synchro # NullSynchro)
    /\ UNCHANGED <<d_pull_in, loop_vars,
                   d_current_prn_length_samples, cn0_vars, queue_msgs>>

\* the else branch: tracking is disabled
IdleBlock ==
    /\ d_Prompt' = "zero"
    /\ out' = [Gnss_Synchro EXCEPT !.System = "G", !.Flag_valid_pseudorange = FALSE]
    /\ d_sample_counter' = d_sample_counter + d_current_prn_length_samples
    /\ consumed' = BlockLengthConsumed
    /\ produced' = 1
    /\ path' = "idle"
    /\ UNCHANGED <<d_enable_tracking, d_pull_in, loop_vars,
                   d_current_prn_length_samples, cn0_vars, queue_msgs>>

\* faulty variant: d_pull_in is left set
PullInBlockRepeated ==
    /\ d_sample_counter' = d_sample_counter + samples_offset
    /\ d_code_phase_chips' = 0
    /\ d_rem_code_phase_samples' = 0
    /\ out' = d_acquisition_gnss_synchro
    /\ consumed' = samples_offset
    /\ produced' = 1
    /\ path' = "pull_in"
    /\ UNCHANGED <<d_enable_tracking, d_pull_in, d_carrier_doppler_hz,
                   d_code_freq_chips, d_rem_carr_phase_rad, d_acc_carrier_phase_rad,
                   d_acc_code_phase_secs, d_current_prn_length_samples,
                   cn0_vars, d_Prompt, queue_msgs>>

\* receiver signal alignment
PullInBlock ==
    /\ d_sample_counter' = d_sample_counter + samples_offset
    /\ d_pull_in' = FALSE
    /\ d_code_phase_chips' = 0
    /\ d_rem_code_phase_samples' = 0
    /\ out' = d_acquisition_gnss_synchro
    /\ consumed' = samples_offset
    /\ produced' = 1
    /\ path' = "pull_in"
    /\ UNCHANGED <<d_enable_tracking, d_carrier_doppler_hz, d_code_freq_chips,
                   d_rem_carr_phase_rad, d_acc_carrier_phase_rad,
                   d_acc_code_phase_secs, d_current_prn_length_samples,
                   cn0_vars, d_Prompt, queue_msgs>>

\* faulty variant: a NaN in the Prompt stops the channel
NaNBlockDisables(samples_available) ==
    /\ d_Prompt' = "nan"
    /\ d_code_phase_chips' = next_code_phase_chips
    /\ d_rem_code_phase_samples' = next_rem_code_phase_samples
    /\ d_sample_counter' = d_sample_counter + samples_available
    /\ consumed' = samples_available
    /\ out' = [d_acquisition_gnss_synchro EXCEPT
                  !.Prompt = "zero",
                  !.Tracking_timestamp_secs = <<d_sample_counter + samples_available, 0>>,
                  !.Carrier_phase_rads = 0, !.Code_phase_secs = 0, !.CN0_dB_hz = 0,
                  !.Flag_valid_tracking = FALSE, !.Flag_valid_pseudorange = FALSE]
    /\ produced' = 1
    /\ path' = "nan"
    /\ d_enable_tracking' = FALSE
    /\ UNCHANGED <<d_pull_in, d_carrier_doppler_hz,
                   d_code_freq_chips, d_rem_carr_phase_rad,
                   d_acc_carrier_phase_rad, d_acc_code_phase_secs,
                   d_current_prn_length_samples, cn0_vars, queue_msgs>>

\* the correlator returned NaN in the Prompt
NaNBlock(samples_available) ==
    /\ d_Prompt' = "nan"
    /\ d_code_phase_chips' = next_code_phase_chips
    /\ d_rem_code_phase_samples' = next_rem_code_phase_samples
    /\ d_sample_counter' = SampleCounterAfterNaN(samples_available)
    /\ consumed' = samples_available
    /\ out' = [d_acquisition_gnss_synchro EXCEPT
                  !.Prompt = "zero",
                  !.Tracking_timestamp_secs = <<SampleCounterAfterNaN(samples_available), 0>>,
                  !.Carrier_phase_rads = 0, !.Code_phase_secs = 0, !.CN0_dB_hz = 0,
                  !.Flag_valid_tracking = FALSE, !.Flag_valid_pseudorange = FALSE]
    /\ produced' = 1
    /\ path' = "nan"
    /\ UNCHANGED <<d_enable_tracking, d_pull_in, d_carrier_doppler_hz,
                   d_code_freq_chips, d_rem_carr_phase_rad,
                   d_acc_carrier_phase_rad, d_acc_code_phase_secs,
                   d_current_prn_length_samples, cn0_vars, queue_msgs>>

\* a block that is correlated and closes the loops.  Prompt: the correlator
\* output; carr_error_filt_hz, code_error_filt_chips: the outputs of the
\* carrier and code loop filters (Hz, 1/1000 chip per second); cn0, lock_test:
\* the estimates, read when one is due
TrackingBlock(Prompt, carr_error_filt_hz, code_error_filt_chips, cn0, lock_test) ==
    LET code_freq == aided_code_freq_chips(carr_error_filt_hz) + code_error_filt_chips
        rem_code == next_rem_code_phase_samples
        fail_counter == CountedLockFail(cn0, lock_test)
        lost == EstimateDue /\ LossOfLock(fail_counter)
        CN0_SNV_dB_Hz == IF EstimateDue THEN cn0 ELSE d_CN0_SNV_dB_Hz
    IN  /\ d_Prompt' = Prompt
        /\ d_code_phase_chips' = next_code_phase_chips
        /\ d_rem_code_phase_samples' = rem_code
        /\ d_sample_counter' = d_sample_counter + d_current_prn_length_samples
        /\ d_carrier_doppler_hz' = carr_error_filt_hz
        /\ d_code_freq_chips' = code_freq
        /\ d_acc_carrier_phase_rad' = d_acc_carrier_phase_rad - carr_error_filt_hz
        /\ d_rem_carr_phase_rad' = next_rem_carr_phase_rad(carr_error_filt_hz)
        /\ d_acc_code_phase_secs' = d_acc_code_phase_secs + code_error_filt_chips
        /\ IF ~EstimateDue
           THEN /\ d_Prompt_buffer' =
                      [d_Prompt_buffer EXCEPT ![d_cn0_estimation_counter] = Prompt]
                /\ d_cn0_estimation_counter' = d_cn0_estimation_counter + 1
                /\ prompt_written' = prompt_written \cup {d_cn0_estimation_counter}
                /\ UNCHANGED <<d_CN0_SNV_dB_Hz, d_carrier_lock_test,
                               d_carrier_lock_fail_counter, queue_msgs,
                               d_enable_tracking>>
           ELSE /\ d_cn0_estimation_counter' = 0
                /\ prompt_written' = {}
                /\ d_CN0_SNV_dB_Hz' = cn0
                /\ d_carrier_lock_test' = lock_test
                /\ d_carrier_lock_fail_counter' = IF lost THEN 0 ELSE fail_counter
                /\ queue_msgs' = IF lost THEN QueueAfterLossOfLock ELSE queue_msgs
                /\ d_enable_tracking' = IF lost THEN FALSE ELSE d_enable_tracking
                /\ UNCHANGED d_Prompt_buffer
        /\ out' = [d_acquisition_gnss_synchro EXCEPT
                      !.Prompt = Prompt,
                      !.Tracking_timestamp_secs =
                          <<d_sample_counter + d_current_prn_length_samples, rem_code>>,
                      !.Code_phase_secs = 0,
                      !.Carrier_phase_rads = d_acc_carrier_phase_rad - carr_error_filt_hz,
                      !.Carrier_Doppler_hz = carr_error_filt_hz,
                      !.CN0_dB_hz = CN0_SNV_dB_Hz,
                      !.Flag_valid_pseudorange = FALSE]
        /\ consumed' = BlockLengthConsumed
        /\ d_current_prn_length_samples' = next_prn_length(code_freq, rem_code)
        /\ produced' = 1
        /\ path' = IF EstimateDue THEN "estimate" ELSE "track"
        /\ UNCHANGED d_pull_in

\* ninput_items: ninput_items[0], at least the 2 * d_vector_length samples
\* forecast asks for
general_work(ninput_items, Prompt, carr_error_filt_hz, code_error_filt_chips, cn0, lock_test) ==
    /\ IF d_enable_tracking
       THEN IF d_pull_in
            THEN PullInBlock
            ELSE IF Prompt = "nan"
                 THEN NaNBlock(ninput_items)
                 ELSE TrackingBlock(Prompt, carr_error_filt_hz,
                                    code_error_filt_chips, cn0, lock_test)
       ELSE IdleBlock
    /\ n_work' = n_work + 1
    /\ available' = ninput_items
    /\ UNCHANGED <<cfg_vars, d_acquisition_gnss_synchro, acq_vars, n_starts,
                   start_at, race_vars>>

(***************************************************************************)
(* The block in its flowgraph                                              *)
(***************************************************************************)
\* configurations the block is constructed with: d_fs_in (Hz), d_vector_length
\* (samples of one code period at d_fs_in), d_if_freq (Hz)
SamplingRates == {4000000}

VectorLength(fs_in) == fs_in \div 1000

IfFreqs == {0}

\* pll_bw_hz, dll_bw_hz (Hz) and early_late_space_chips (1/1000 chip) of a
\* usual configuration
PllBwHz == 50

DllBwHz == 2

EarlyLateSpaceChips == 500

Channels == {1, 2}

\* acquisition results: the cold start of the specification (delay 1234
\* samples, Doppler 2500 Hz, sample stamp 0), a delay between two samples,
\* and a negative Doppler with a later stamp
ColdStart == AcqRecord(1234000, 2500, 0, TRUE)

AcqRecords == {ColdStart, AcqRecord(1234480, 2500, 0, FALSE),
               AcqRecord(0, -5000, 8000, TRUE)}

\* ninput_items[0]: forecast asks for 2 * d_vector_length samples
NInputItems == {2 * d_vector_length, 2 * d_vector_length + 1}

\* what the correlator returns for the Prompt
CorrelatorOutputs == {"sig", "nan"}

\* outputs of the carrier loop filter (Hz) and of the code loop filter
\* (1/1000 chip per second): the loops hold their estimate, or step
LoopFilterOutputs == {<<d_carrier_doppler_hz, 0>>, <<-5000, 2000>>}

Environment ==
    /\ queue_msgs = <<>>
    /\ out = Gnss_Synchro
    /\ consumed = 0
    /\ produced = 0
    /\ path = "none"
    /\ n_work = 0
    /\ available = 0
    /\ n_starts = 0
    /\ start_at = -1
    /\ dropout_blocks = 0
    /\ work_pc = "done"
    /\ next_prn_length_samples = 0
    /\ start_pc = "done"

Init ==
    /\ \E fs_in \in SamplingRates, if_freq \in IfFreqs :
           Constructor(if_freq, fs_in, VectorLength(fs_in), TRUE, PllBwHz, DllBwHz,
                       EarlyLateSpaceChips)
    /\ signal = "present"
    /\ Environment

\* acquisition hands over its result while the channel is not tracking
SetGnssSynchro ==
    /\ ~d_enable_tracking
    /\ \E p \in AcqRecords : set_gnss_synchro(p)
    /\ UNCHANGED env_vars

StartTracking ==
    /\ n_starts < MaxStarts
    /\ start_tracking
    /\ UNCHANGED env_vars

GeneralWork ==
    /\ d_sample_counter < MaxBlocks * d_vector_length
    /\ \E ninput_items \in NInputItems, Prompt \in CorrelatorOutputs,
          nco \in LoopFilterOutputs,
          cn0 \in cn0_svn_estimator(d_Prompt_buffer),
          lock_test \in carrier_lock_detector(d_Prompt_buffer) :
           general_work(ninput_items, Prompt, nco[1], nco[2], cn0, lock_test)
    /\ UNCHANGED env_vars

\* general_work called with no input sample (ninput_items[0] = 0): the
\* correlator then reads past the input, and its output is anything
GeneralWorkNoInput ==
    /\ n_work < MaxNoInputWork
    /\ \E Prompt \in CorrelatorOutputs \cup {"zero"},
          cn0 \in cn0_svn_estimator(d_Prompt_buffer),
          lock_test \in carrier_lock_detector(d_Prompt_buffer) :
           general_work(0, Prompt, d_carrier_doppler_hz, 0, cn0, lock_test)
    /\ UNCHANGED env_vars

Next == SetGnssSynchro \/ StartTracking \/ GeneralWork \/ GeneralWorkNoInput

Spec == Init /\ [][Next]_vars

(***************************************************************************)
(* A channel tracked until it loses lock.  One acquisition result; the     *)
(* loops hold their estimates.  While the signal is present the estimates  *)
(* pass or fail; once it has dropped out the Prompt is zero and every      *)
(* estimate fails, until the channel is started again.                     *)
(***************************************************************************)
\* (C/N0, lock test) pairs: both good, lock test failing, C/N0 failing
LockEstimates == {<<45, 100>>, <<45, 0>>, <<0, 100>>}

\* the estimates of a signal that has dropped out
DropoutEstimates == {<<0, 0>>}

InitLock ==
    /\ \E fs_in \in SamplingRates, if_freq \in IfFreqs, queue \in BOOLEAN :
           Constructor(if_freq, fs_in, VectorLength(fs_in), queue, PllBwHz, DllBwHz,
                       EarlyLateSpaceChips)
    /\ signal = "present"
    /\ Environment

\* the channel is given its number while the flowgraph is set up
SetChannel ==
    /\ path = "none"
    /\ d_channel = 0
    /\ d_acquisition_gnss_synchro = NullSynchro
    /\ \E channel \in Channels : set_channel(channel)
    /\ UNCHANGED env_vars

SetGnssSynchroOnce ==
    /\ d_channel # 0
    /\ d_acquisition_gnss_synchro = NullSynchro
    /\ set_gnss_synchro(ColdStart)
    /\ UNCHANGED env_vars

\* the channel is started, and started again after a loss of lock, when
\* acquisition has found the signal
StartTrackingIdle ==
    /\ ~d_enable_tracking
    /\ n_starts < MaxStarts
    /\ start_tracking
    /\ signal' = "present"
    /\ dropout_blocks' = 0

\* the signal drops out of a locked channel
Dropout ==
    /\ signal = "present"
    /\ d_enable_tracking /\ ~d_pull_in
    /\ d_carrier_lock_fail_counter = 0
    /\ signal' = "absent"
    /\ dropout_blocks' = 0
    /\ UNCHANGED <<cfg_vars, d_acquisition_gnss_synchro, acq_vars,
                   d_enable_tracking, d_pull_in, d_sample_counter, loop_vars,
                   d_current_prn_length_samples, cn0_vars, d_Prompt, io_vars,
                   hist_vars, race_vars>>

GeneralWorkLock ==
    /\ n_work < MaxLockWork
    /\ n_starts = 0 => n_work < MaxIdleBeforeStart
    /\ d_enable_tracking /\ signal = "present" => n_work - start_at < MaxLockedWork
    /\ \E est \in IF signal = "present" THEN LockEstimates ELSE DropoutEstimates :
           /\ est[1] \in cn0_svn_estimator(d_Prompt_buffer)
           /\ est[2] \in carrier_lock_detector(d_Prompt_buffer)
           /\ general_work(2 * d_vector_length,
                           IF signal = "present" THEN "sig" ELSE "zero",
                           d_carrier_doppler_hz, 0, est[1], est[2])
    /\ signal' = signal
    /\ dropout_blocks' = IF signal = "absent" THEN dropout_blocks + 1 ELSE dropout_blocks

NextLock ==
    SetChannel \/ SetGnssSynchroOnce \/ StartTrackingIdle \/ Dropout \/ GeneralWorkLock

SpecLock == InitLock /\ [][NextLock]_vars

(***************************************************************************)
(* A channel started on an input of zeros: the Prompt is zero in every     *)
(* block.  The scheduler calls general_work as long as input arrives; here *)
(* input arrives forever while the channel tracks.                         *)
(***************************************************************************)
InitNoSignal ==
    /\ \E fs_in \in SamplingRates, if_freq \in IfFreqs :
           Constructor(if_freq, fs_in, VectorLength(fs_in), TRUE, PllBwHz, DllBwHz,
                       EarlyLateSpaceChips)
    /\ signal = "absent"
    /\ Environment

StartTrackingOnce ==
    /\ n_starts = 0
    /\ start_tracking
    /\ signal' = signal
    /\ dropout_blocks' = 0

GeneralWorkNoSignal ==
    /\ ~d_enable_tracking =>
          /\ n_work < MaxLockWork
          /\ n_starts = 0 => n_work < MaxIdleBeforeStart
    /\ \E cn0 \in cn0_svn_estimator(d_Prompt_buffer),
          lock_test \in carrier_lock_detector(d_Prompt_buffer) :
           general_work(2 * d_vector_length, "zero", d_carrier_doppler_hz, 0,
                        cn0, lock_test)
    /\ signal' = signal
    /\ dropout_blocks' = dropout_blocks + 1

NextNoSignal ==
    SetChannel \/ SetGnssSynchroOnce \/ StartTrackingOnce \/ GeneralWorkNoSignal

SpecNoSignal ==
    InitNoSignal /\ [][NextNoSignal]_vars /\ WF_vars(GeneralWorkNoSignal)

(***************************************************************************)
(* A channel whose correlator returns NaN for a burst of blocks: the       *)
(* signal source is "faulty" from Fault to Recover, once.  The loops hold  *)
(* their estimates and the estimates pass.                                 *)
(***************************************************************************)
\* an acquisition result with a Doppler of -4750 Hz
FastRecord == AcqRecord(0, -4750, 0, TRUE)

SetGnssSynchroFast ==
    /\ d_channel # 0
    /\ d_acquisition_gnss_synchro = NullSynchro
    /\ set_gnss_synchro(FastRecord)
    /\ UNCHANGED env_vars

\* the source starts to deliver NaN samples, early in the session
Fault ==
    /\ signal = "present"
    /\ dropout_blocks = 0
    /\ d_enable_tracking /\ ~d_pull_in
    /\ n_work - start_at <= MaxFaultAt
    /\ signal' = "faulty"
    /\ UNCHANGED <<cfg_vars, d_acquisition_gnss_synchro, acq_vars,
                   d_enable_tracking, d_pull_in, d_sample_counter, loop_vars,
                   d_current_prn_length_samples, cn0_vars, d_Prompt, io_vars,
                   hist_vars, dropout_blocks, race_vars>>

\* the source delivers finite samples again
Recover ==
    /\ signal = "faulty"
    /\ dropout_blocks > 0
    /\ signal' = "present"
    /\ UNCHANGED <<cfg_vars, d_acquisition_gnss_synchro, acq_vars,
                   d_enable_tracking, d_pull_in, d_sample_counter, loop_vars,
                   d_current_prn_length_samples, cn0_vars, d_Prompt, io_vars,
                   hist_vars, dropout_blocks, race_vars>>

GeneralWorkNaN ==
    /\ n_work < MaxNaNWork
    /\ n_starts = 0 => n_work < MaxIdleBeforeStart
    /\ general_work(2 * d_vector_length,
                    IF signal = "faulty" THEN "nan" ELSE "sig",
                    d_carrier_doppler_hz, 0, 45, 100)
    /\ signal' = signal
    /\ dropout_blocks' = IF signal = "faulty" THEN dropout_blocks + 1 ELSE dropout_blocks

NextNaN ==
    SetChannel \/ SetGnssSynchroFast \/ StartTrackingOnce \/ Fault \/ Recover
      \/ GeneralWorkNaN

SpecNaN == Init /\ [][NextNaN]_vars

(***************************************************************************)
(* A channel that is started again, while it is idle or while it still     *)
(* tracks.  The signal is present, the loops hold their estimates and the  *)
(* estimates pass or fail.                                                 *)
(***************************************************************************)
StartTrackingAgain ==
    /\ n_starts < MaxRestarts
    /\ start_tracking
    /\ UNCHANGED env_vars

GeneralWorkRestart ==
    /\ n_work < MaxRestartWork
    /\ n_starts = 0 => n_work < MaxIdleBeforeStart
    /\ \E est \in LockEstimates :
           /\ est[1] \in cn0_svn_estimator(d_Prompt_buffer)
           /\ est[2] \in carrier_lock_detector(d_Prompt_buffer)
           /\ general_work(2 * d_vector_length, "sig", d_carrier_doppler_hz, 0,
                           est[1], est[2])
    /\ UNCHANGED env_vars

NextRestart ==
    SetChannel \/ SetGnssSynchroOnce \/ StartTrackingAgain \/ GeneralWorkRestart

SpecRestart == Init /\ [][NextRestart]_vars

(***************************************************************************)
(* The alignment of a channel started on any acquisition result: delays    *)
(* over the code period, and sample stamps before and after the sample     *)
(* counter of the block at the time it is started.                         *)
(***************************************************************************)
\* Acq_delay_samples in 1/1000 sample, within one code period
PullInDelays == {0, 1234000, 3999000}

\* Acq_samplestamp_samples
PullInStamps == {0, 3000, 5000, 9000}

SetGnssSynchroAny ==
    /\ d_acquisition_gnss_synchro = NullSynchro
    /\ \E delay \in PullInDelays, stamp \in PullInStamps :
           set_gnss_synchro(AcqRecord(delay, 2500, stamp, TRUE))
    /\ UNCHANGED env_vars

\* idle blocks before the start, then the PULL_IN block and the first
\* TRACKING blocks
GeneralWorkPullIn ==
    /\ n_starts = 0 => n_work < MaxIdlePullIn
    /\ n_starts > 0 => n_work - start_at < MaxBlocks
    /\ general_work(2 * d_vector_length, "sig", d_carrier_doppler_hz, 0, 45, 100)
    /\ UNCHANGED env_vars

NextPullIn == SetGnssSynchroAny \/ StartTrackingOnce \/ GeneralWorkPullIn

SpecPullIn == Init /\ [][NextPullIn]_vars

(***************************************************************************)
(* start_tracking called from another thread than the one that runs        *)
(* general_work, after a session whose signal dropped out has lost lock:   *)
(* the statements of an idle general_work and of start_tracking interleave. *)
(* The block has no lock and no atomic member, so the two writes that end  *)
(* start_tracking may become visible in either order.                      *)
(***************************************************************************)
\* an acquisition result with a Doppler of 3250 Hz
RaceRecord == AcqRecord(0, 3250, 0, TRUE)

SetGnssSynchroRace ==
    /\ d_acquisition_gnss_synchro = NullSynchro
    /\ set_gnss_synchro(RaceRecord)
    /\ UNCHANGED env_vars

\* after the loss of lock the scheduler calls general_work once before the
\* channel is started again, and once while start_tracking is in flight;
\* the second session is followed for MaxRaceBlocks invocations
RaceWorkDue ==
    /\ work_pc = "done"
    /\ n_work < MaxRaceWork
    /\ (n_starts = 1 /\ ~d_enable_tracking) => path = "estimate"
    /\ start_pc # "done" => path \in {"estimate", "idle"}
    /\ n_starts > 1 => n_work - start_at < MaxRaceBlocks

\* general_work run from its first to its last statement
GeneralWorkRace ==
    /\ RaceWorkDue
    /\ n_starts = 0 => n_work < MaxIdleBeforeStart
    /\ d_enable_tracking /\ signal = "present" => n_work - start_at < MaxRaceLocked
    /\ IF signal = "present"
       THEN general_work(2 * d_vector_length, "sig", d_carrier_doppler_hz, 0, 45, 100)
       ELSE general_work(2 * d_vector_length, "zero", d_carrier_doppler_hz, 0, 0, 0)
    /\ UNCHANGED env_vars

\* general_work reads d_current_prn_length_samples into its local and finds
\* d_enable_tracking false
IdleWorkBegin ==
    /\ RaceWorkDue
    /\ n_starts > 0
    /\ ~d_enable_tracking
    /\ next_prn_length_samples' = d_current_prn_length_samples
    /\ work_pc' = "idle"
    /\ UNCHANGED <<cfg_vars, d_acquisition_gnss_synchro, d_enable_tracking, d_pull_in,
                   d_sample_counter, acq_vars, loop_vars, d_current_prn_length_samples,
                   cn0_vars, d_Prompt, io_vars, hist_vars, env_vars, start_pc>>

\* ... and runs the else branch and the end of general_work
IdleWorkEnd ==
    /\ work_pc = "idle"
    /\ d_Prompt' = "zero"
    /\ out' = [Gnss_Synchro EXCEPT !.System = "G", !.Flag_valid_pseudorange = FALSE]
    /\ d_sample_counter' = d_sample_counter + d_current_prn_length_samples
    /\ consumed' = d_current_prn_length_samples
    /\ d_current_prn_length_samples' = next_prn_length_samples
    /\ produced' = 1
    /\ path' = "idle"
    /\ n_work' = n_work + 1
    /\ available' = 2 * d_vector_length
    /\ work_pc' = "done"
    /\ next_prn_length_samples' = 0
    /\ UNCHANGED <<cfg_vars, d_acquisition_gnss_synchro, d_enable_tracking, d_pull_in,
                   acq_vars, loop_vars, cn0_vars, queue_msgs, n_starts, start_at,
                   env_vars, start_pc>>

\* start_tracking, called again after the loss of lock, up to its last two
\* writes
StartTrackingBegin ==
    /\ start_pc = "done"
    /\ n_starts > 0 /\ n_starts < MaxRestarts
    /\ ~d_enable_tracking
    /\ LET acq == d_acquisition_gnss_synchro
           acq_trk_diff_samples == d_sample_counter - acq.Acq_samplestamp_samples
           corrected == corrected_acq_phase_samples(acq.Acq_delay_samples,
                                                    acq.Acq_doppler_hz,
                                                    acq_trk_diff_samples)
       IN  /\ d_acq_carrier_doppler_hz' = acq.Acq_doppler_hz
           /\ d_acq_sample_stamp' = acq.Acq_samplestamp_samples
           /\ d_current_prn_length_samples' = Round(T_prn_mod_samples(acq.Acq_doppler_hz))
           /\ d_acq_code_phase_samples' = corrected
           /\ d_carrier_doppler_hz' = acq.Acq_doppler_hz
           /\ d_code_freq_chips' = aided_code_freq_chips(acq.Acq_doppler_hz)
           /\ d_code_phase_chips' = MulDiv(corrected, GPS_L1_CA_CODE_RATE_HZ \div 1000,
                                           d_fs_in \div 1000)
    /\ d_carrier_lock_fail_counter' = 0
    /\ d_rem_code_phase_samples' = 0
    /\ d_rem_carr_phase_rad' = 0
    /\ d_acc_carrier_phase_rad' = 0
    /\ d_acc_code_phase_secs' = 0
    /\ start_pc' = "flags"
    /\ UNCHANGED <<cfg_vars, d_acquisition_gnss_synchro, d_sample_counter,
                   d_enable_tracking, d_pull_in,
                   d_cn0_estimation_counter, d_Prompt_buffer, d_CN0_SNV_dB_Hz,
                   d_carrier_lock_test, prompt_written, d_Prompt, io_vars,
                   hist_vars, env_vars, work_pc, next_prn_length_samples>>

\* start_pc after one of the two writes, and the history of the call that
\* has made both
StartTrackingWrites(flag) ==
    /\ start_pc \in {"flags", flag}
    /\ start_pc' = IF start_pc = "flags"
                   THEN (IF flag = "enable" THEN "pull_in" ELSE "enable")
                   ELSE "done"
    /\ n_starts' = IF start_pc = "flags" THEN n_starts ELSE n_starts + 1
    /\ start_at' = IF start_pc = "flags" THEN start_at ELSE n_work

\* d_pull_in = true
StorePullIn ==
    /\ StartTrackingWrites("pull_in")
    /\ d_pull_in' = TRUE
    /\ UNCHANGED <<cfg_vars, d_acquisition_gnss_synchro, d_enable_tracking,
                   d_sample_counter, acq_vars, loop_vars, d_current_prn_length_samples,
                   cn0_vars, d_Prompt, io_vars, n_work, available, env_vars,
                   work_pc, next_prn_length_samples>>

\* d_enable_tracking = true
StoreEnableTracking ==
    /\ StartTrackingWrites("enable")
    /\ d_enable_tracking' = TRUE
    /\ UNCHANGED <<cfg_vars, d_acquisition_gnss_synchro, d_pull_in,
                   d_sample_counter, acq_vars, loop_vars, d_current_prn_length_samples,
                   cn0_vars, d_Prompt, io_vars, n_work, available, env_vars,
                   work_pc, next_prn_length_samples>>

NextRace ==
    \/ SetGnssSynchroRace \/ StartTrackingOnce \/ Dropout \/ GeneralWorkRace
    \/ IdleWorkBegin \/ IdleWorkEnd
    \/ StartTrackingBegin \/ StorePullIn \/ StoreEnableTracking

SpecRace == Init /\ [][NextRace]_vars

(***************************************************************************)
(* Construction with any configuration, and the idle block that results.   *)
(***************************************************************************)
\* fs_in, pll_bw_hz, dll_bw_hz and early_late_space_chips (1/1000 chip) the
\* block may be constructed with: usual values, zero and negative ones, and
\* a spacing of one chip
ConfigSamplingRates == {-4000000, 0, 4000000}

ConfigPllBwHz == {-50, 0, 50}

ConfigDllBwHz == {-2, 0, 2}

ConfigEarlyLateSpaceChips == {-500, 0, 500, 1000}

InitConfig ==
    /\ \E fs_in \in ConfigSamplingRates, if_freq \in IfFreqs,
          pll_bw_hz \in ConfigPllBwHz, dll_bw_hz \in ConfigDllBwHz,
          early_late_space_chips \in ConfigEarlyLateSpaceChips :
           Constructor(if_freq, fs_in, VectorLength(4000000), TRUE, pll_bw_hz,
                       dll_bw_hz, early_late_space_chips)
    /\ signal = "present"
    /\ Environment

\* general_work on the channel that has not been started
GeneralWorkIdle ==
    /\ ~d_enable_tracking
    /\ n_work < MaxIdleBeforeStart
    /\ general_work(2 * d_vector_length, "sig", 0, 0, 0, 0)
    /\ UNCHANGED env_vars

NextConfig == SetChannel \/ SetGnssSynchroOnce \/ GeneralWorkIdle

SpecConfig == InitConfig /\ [][NextConfig]_vars

(***************************************************************************)
(* Properties                                                              *)
(***************************************************************************)
\* a step that is an invocation of general_work / of start_tracking
IsWork == n_work' = n_work + 1

IsStart == n_starts' = n_starts + 1

\* the invocation of general_work taking this step is the first one since
\* start_tracking was invoked
FirstSinceStart == start_at = n_work

TrackingPaths == {"track", "estimate", "nan"}

\* the loop estimates and the estimator state are left as they were
NoLoopUpdate ==
    /\ d_carrier_doppler_hz' = d_carrier_doppler_hz
    /\ d_code_freq_chips' = d_code_freq_chips
    /\ d_rem_carr_phase_rad' = d_rem_carr_phase_rad
    /\ d_acc_carrier_phase_rad' = d_acc_carrier_phase_rad
    /\ d_acc_code_phase_secs' = d_acc_code_phase_secs
    /\ d_current_prn_length_samples' = d_current_prn_length_samples
    /\ UNCHANGED cn0_vars

\* C1: start_tracking sets pull_in and enabled; the invocation of general_work
\* that follows it, and no other, takes the PULL_IN branch, without
\* correlating (d_Prompt is not written) and without updating the loops;
\* pull_in is false after every invocation, and every other invocation that
\* finds enabled set is a TRACKING block (normal or NaN fault).
C1_PullInExactlyOnce ==
    [][ /\ IsStart => (d_pull_in' /\ d_enable_tracking')
        /\ IsWork =>
             /\ (path' = "pull_in") <=> FirstSinceStart
             /\ ~d_pull_in'
             /\ path' = "pull_in" => (d_Prompt' = d_Prompt /\ NoLoopUpdate)
             /\ (d_enable_tracking /\ ~FirstSinceStart) => path' \in TrackingPaths
      ]_vars

\* a TRACKING block of the second tracking session, after its PULL_IN block
C1_Witness ==
    /\ n_starts = 2
    /\ path \in {"track", "estimate"}
    /\ n_work >= start_at + 2

\* C2 as claimed: every invocation consumes current_prn_length_samples and
\* produces one output record.
C2_AlwaysOneBlockLength ==
    [][IsWork => (consumed' = d_current_prn_length_samples /\ produced' = 1)]_vars

\* C2: every invocation produces exactly one output record; an IDLE block and
\* a normal TRACKING block consume current_prn_length_samples, the PULL_IN
\* block consumes samples_offset and a NaN-fault block consumes all the
\* ninput_items[0] samples available.
C2_ConsumedPerBranch ==
    [][IsWork =>
         /\ produced' = 1
         /\ path' \in {"idle", "track", "estimate"}
              => consumed' = d_current_prn_length_samples
         /\ path' = "pull_in" => consumed' = samples_offset
         /\ path' = "nan" => consumed' = available'
      ]_vars

\* a NaN-fault block that consumed more than the block length
C2_Witness ==
    /\ path = "nan"
    /\ consumed = 2 * d_vector_length + 1
    /\ consumed # d_current_prn_length_samples

\* C3: d_sample_counter never decreases; general_work adds to it exactly the
\* number of samples it hands to consume_each, in every branch, and no other
\* operation changes it.
C3_SampleCounterCountsConsumed ==
    [][ /\ d_sample_counter' >= d_sample_counter
        /\ IsWork => d_sample_counter' = d_sample_counter + consumed'
        /\ ~IsWork => d_sample_counter' = d_sample_counter
      ]_vars

\* a NaN-fault block of the second session: idle, pull-in and tracking
\* blocks came before it
C3_Witness ==
    /\ path = "nan"
    /\ n_starts = 2
    /\ d_sample_counter > 4 * d_vector_length

\* the shift of the PULL_IN block, written out from the state, in 1/1000 sample
PullInShift ==
    (d_current_prn_length_samples
       - Fmod(d_sample_counter - d_acq_sample_stamp, d_current_prn_length_samples)) * 1000

\* C5 as claimed: the PULL_IN block consumes round(delay + shift) with the
\* delay acquisition reported.
C5_ReportedDelay ==
    [][(IsWork /\ path' = "pull_in") =>
          consumed' = Round(d_acquisition_gnss_synchro.Acq_delay_samples + PullInShift)
      ]_vars

\* C5: start_tracking stores in d_acq_code_phase_samples the reported delay
\* advanced by the code Doppler drift over the samples between acquisition
\* and tracking, modulo one nominal code period (a negative result is wrapped
\* by one Doppler-scaled period); the PULL_IN block consumes
\* round(d_acq_code_phase_samples + shift) samples, adds as many to
\* d_sample_counter and does not correlate; in the cold start (delay 1234,
\* Doppler 2500 Hz, stamp 0, started at 5 * vector_length) that is
\* 1234 + vector_length.
C5_PullInOffset ==
    [][ /\ IsStart =>
             LET acq == d_acquisition_gnss_synchro
                 diff == d_sample_counter - acq.Acq_samplestamp_samples
                 drift == MulPpm(diff, DopplerPpb(acq.Acq_doppler_hz))
                 phase == Fmod(acq.Acq_delay_samples + drift, T_prn_true_samples)
             IN  d_acq_code_phase_samples' =
                     IF phase < 0 THEN T_prn_mod_samples(acq.Acq_doppler_hz) + phase
                     ELSE phase
        /\ (IsWork /\ path' = "pull_in") =>
             /\ consumed' = Round(d_acq_code_phase_samples + PullInShift)
             /\ d_sample_counter' = d_sample_counter + consumed'
             /\ d_Prompt' = d_Prompt
             /\ UNCHANGED cn0_vars
             /\ ( /\ d_acquisition_gnss_synchro = ColdStart
                  /\ d_acq_sample_stamp = 0
                  /\ d_sample_counter = 5 * d_vector_length )
                  => consumed' = 1234 + d_vector_length
      ]_vars

\* the PULL_IN block of the cold start
C5_Witness ==
    /\ path = "pull_in"
    /\ d_acquisition_gnss_synchro = ColdStart
    /\ d_acq_sample_stamp = 0
    /\ consumed = 1234 + d_vector_length
    /\ d_sample_counter = 5 * d_vector_length + consumed

\* every numeric field of an output record is zero
ZeroValued(rec) ==
    /\ rec.Prompt = "zero"
    /\ rec.Tracking_timestamp_secs = <<0, 0>>
    /\ rec.Carrier_phase_rads = 0
    /\ rec.Carrier_Doppler_hz = 0
    /\ rec.Code_phase_secs = 0
    /\ rec.CN0_dB_hz = 0
    /\ ~rec.Flag_valid_tracking
    /\ ~rec.Flag_valid_pseudorange

\* C4: an invocation of general_work that finds enabled false (before any
\* start_tracking as well as after a loss of lock) takes the IDLE branch,
\* emits one zero-valued record, adds current_prn_length_samples to
\* d_sample_counter and leaves enabled, pull_in, the loop state, the block
\* length, the estimator state and the queue as they were.
C4_IdleFrame ==
    [][(IsWork /\ ~d_enable_tracking) =>
          /\ path' = "idle"
          /\ produced' = 1
          /\ ZeroValued(out')
          /\ d_sample_counter' = d_sample_counter + d_current_prn_length_samples
          /\ ~d_enable_tracking'
          /\ d_pull_in' = d_pull_in
          /\ UNCHANGED loop_vars
          /\ NoLoopUpdate
          /\ queue_msgs' = queue_msgs
      ]_vars

\* the first IDLE block after a loss of lock: the loops hold what tracking
\* left in them
C4_Witness ==
    /\ path = "idle"
    /\ n_starts = 1
    /\ queue_msgs # <<>>
    /\ d_rem_code_phase_samples # 0
    /\ d_sample_counter > 1000 * d_vector_length

\* the block that counts a failing estimate with the counter at
\* MAXIMUM_LOCK_FAIL_COUNTER
Exceeds ==
    /\ IsWork
    /\ path' = "estimate"
    /\ LockFails(d_CN0_SNV_dB_Hz', d_carrier_lock_test')
    /\ d_carrier_lock_fail_counter = MAXIMUM_LOCK_FAIL_COUNTER

\* C6 as claimed: in every block in which the counter exceeds
\* MAXIMUM_LOCK_FAIL_COUNTER one loss-of-lock message with the channel's
\* number is sent, and in no other.
C6_AlwaysOneMessage ==
    [][IF Exceeds
       THEN /\ queue_msgs' = Append(queue_msgs, <<d_channel, LOSS_OF_LOCK>>)
            /\ ~d_enable_tracking'
            /\ d_carrier_lock_fail_counter' = 0
       ELSE queue_msgs' = queue_msgs
      ]_vars

\* C6: in every block in which the counter exceeds MAXIMUM_LOCK_FAIL_COUNTER,
\* enabled becomes false and the counter is reset to 0 in that block, and
\* exactly one loss-of-lock message with the channel's number is sent if the
\* block was given a queue, none if it was not; no other step sends a message
\* or disables tracking.
C6_MessageIfQueue ==
    [][IF Exceeds
       THEN /\ d_queue => queue_msgs' = Append(queue_msgs, <<d_channel, LOSS_OF_LOCK>>)
            /\ ~d_queue => queue_msgs' = queue_msgs
            /\ d_enable_tracking /\ ~d_enable_tracking'
            /\ d_carrier_lock_fail_counter' = 0
       ELSE /\ queue_msgs' = queue_msgs
            /\ d_enable_tracking => d_enable_tracking'
      ]_vars

\* channel 2 lost lock and said so
C6_Witness ==
    /\ path = "estimate"
    /\ ~d_enable_tracking
    /\ d_channel = 2
    /\ queue_msgs = <<(<<2, LOSS_OF_LOCK>>)>>
    /\ d_carrier_lock_fail_counter = 0

\* C7: between invocations d_carrier_lock_fail_counter is in
\* 0 .. MAXIMUM_LOCK_FAIL_COUNTER.
C7_FailCounterRange ==
    d_carrier_lock_fail_counter \in 0 .. MAXIMUM_LOCK_FAIL_COUNTER

\* the counter at its maximum after an estimate
C7_Witness ==
    /\ path = "estimate"
    /\ d_enable_tracking
    /\ d_carrier_lock_fail_counter = MAXIMUM_LOCK_FAIL_COUNTER

\* a block of a locked channel whose signal has dropped out
DropoutBlock == IsWork /\ signal = "absent" /\ d_enable_tracking /\ ~d_pull_in

\* blocks from one estimate to the next
EstimatePeriod == CN0_ESTIMATION_SAMPLES + 1

\* C8 as claimed: lock is lost no earlier than 0.8 * MAXIMUM_LOCK_FAIL_COUNTER
\* and no later than 1.2 * MAXIMUM_LOCK_FAIL_COUNTER blocks after the dropout.
C8_WithinMaxFailBlocks ==
    [][DropoutBlock =>
          IF d_enable_tracking'
          THEN dropout_blocks' < (12 * MAXIMUM_LOCK_FAIL_COUNTER) \div 10
          ELSE dropout_blocks' >= (8 * MAXIMUM_LOCK_FAIL_COUNTER) \div 10
      ]_vars

\* C8: after a dropout that starts with the counter at 0, lock is lost in the
\* block of the (MAXIMUM_LOCK_FAIL_COUNTER + 1)-th estimate; an estimate is
\* made every CN0_ESTIMATION_SAMPLES + 1 blocks, so that is block
\* (MAXIMUM_LOCK_FAIL_COUNTER + 1) * (CN0_ESTIMATION_SAMPLES + 1) less the
\* number of Prompts stored when the dropout starts, after the dropout start;
\* the message is sent in that block if there is a queue, and enabled stays
\* false in the blocks that follow.
C8_DropoutLosesLock ==
    [][ /\ DropoutBlock =>
             IF d_enable_tracking'
             THEN dropout_blocks' < (MAXIMUM_LOCK_FAIL_COUNTER + 1) * EstimatePeriod
             ELSE /\ dropout_blocks' >= (MAXIMUM_LOCK_FAIL_COUNTER + 1) * EstimatePeriod
                                          - CN0_ESTIMATION_SAMPLES
                  /\ dropout_blocks' <= (MAXIMUM_LOCK_FAIL_COUNTER + 1) * EstimatePeriod
                  /\ d_queue => queue_msgs' = Append(queue_msgs, <<d_channel, LOSS_OF_LOCK>>)
        /\ (IsWork /\ signal = "absent" /\ ~d_enable_tracking) => ~d_enable_tracking'
      ]_vars

\* lock lost in the earliest block: the dropout started with the buffer full
C8_Witness ==
    /\ signal = "absent"
    /\ path = "estimate"
    /\ ~d_enable_tracking
    /\ dropout_blocks = (MAXIMUM_LOCK_FAIL_COUNTER + 1) * EstimatePeriod
                          - CN0_ESTIMATION_SAMPLES

C10_DisabledUntilStart ==
    [][ /\ (~d_enable_tracking /\ n_starts > 0 /\ ~IsStart) =>
             /\ ~d_enable_tracking'
             /\ IsWork =>
                  /\ path' = "idle"
                  /\ out'.Prompt = "zero" /\ d_Prompt' = "zero"
                  /\ ZeroValued(out')
                  /\ NoLoopUpdate
                  /\ queue_msgs' = queue_msgs
        /\ (~d_enable_tracking /\ n_starts > 0 /\ IsStart) => d_enable_tracking'
      ]_vars

\* the third IDLE block after the loss of lock, with the one message sent
C10_Witness ==
    /\ ~d_enable_tracking
    /\ n_starts = 1
    /\ path = "idle"
    /\ Len(queue_msgs) = 1
    /\ signal = "absent"
    /\ dropout_blocks >= (MAXIMUM_LOCK_FAIL_COUNTER + 1) * EstimatePeriod + 3

\* C11 as claimed: the valid flag of every output record is true in a normal
\* TRACKING block and false in every other block, whatever the acquisition
\* record holds.
C11_ValidMirrorsState ==
    [][IsWork => (out'.Flag_valid_tracking <=> path' \in {"track", "estimate"})]_vars

\* C12: a block whose Prompt is NaN consumes all the ninput_items[0] samples
\* available, emits one record with the valid flag false and a zero Prompt,
\* and leaves enabled, the lock-fail counter and the queue as they were; the
\* block after it is a TRACKING block again, and with a Prompt that is not
\* NaN it is correlated, counted and output as a normal one.
C12_NaNBlock ==
    [][ /\ (IsWork /\ path' = "nan") =>
             /\ consumed' = available'
             /\ produced' = 1
             /\ ~out'.Flag_valid_tracking
             /\ out'.Prompt = "zero"
             /\ d_enable_tracking /\ d_enable_tracking'
             /\ queue_msgs' = queue_msgs
             /\ d_carrier_lock_fail_counter' = d_carrier_lock_fail_counter
        /\ (IsWork /\ path = "nan" /\ ~FirstSinceStart) =>
             /\ path' \in TrackingPaths
             /\ path' # "nan" =>
                  /\ d_Prompt' \in {"sig", "zero"} /\ out'.Prompt = d_Prompt'
                  /\ consumed' = d_current_prn_length_samples
                  /\ d_sample_counter' = d_sample_counter + d_current_prn_length_samples
      ]_vars

\* a NaN block of a channel whose acquisition record carries a true flag: the
\* record sent has it false, and the channel still tracks
C12_Witness ==
    /\ path = "nan"
    /\ d_enable_tracking
    /\ d_acquisition_gnss_synchro.Flag_valid_tracking
    /\ ~out.Flag_valid_tracking
    /\ out.Prompt = "zero"
    /\ consumed = available

\* the distance, in 1/1000 sample, of the block length from one code period
\* at the current code frequency, d_fs_in * GPS_L1_CA_CODE_LENGTH_CHIPS /
\* d_code_freq_chips
PrnLengthError == d_current_prn_length_samples * 1000 - T_prn_samples(d_code_freq_chips)

\* C13 as claimed: between invocations the block length is within one sample
\* of one code period at the current code frequency.
C13_PrnLengthWithinOneSample ==
    PrnLengthError <= 1000 /\ PrnLengthError >= -1000

\* C14 as claimed: between invocations d_rem_carr_phase_rad is in [0, 2 pi),
\* here 0 .. 999 thousandths of a cycle.
C14_RemCarrPhaseInRange ==
    d_rem_carr_phase_rad >= 0 /\ d_rem_carr_phase_rad < 1000

\* C15 as claimed: an invocation of general_work that is given no input
\* sample changes no state of the block.
C15_NoInputNoChange ==
    [][(IsWork /\ available' = 0) =>
          UNCHANGED <<d_sample_counter, d_current_prn_length_samples,
                      d_enable_tracking, d_pull_in, loop_vars, cn0_vars>>
      ]_vars

\* what the claim calls a valid configuration
ValidConfiguration ==
    /\ d_carrier_loop_filter > 0
    /\ d_code_loop_filter > 0
    /\ d_fs_in > 0
    /\ d_early_late_spc_chips > 0 /\ d_early_late_spc_chips < 1000

\* C16 as claimed: a block that exists in the IDLE state was constructed
\* with a valid configuration.
C16_InvalidConfigurationRejected ==
    ~d_enable_tracking => ValidConfiguration

\* C17: an estimate is produced from CN0_ESTIMATION_SAMPLES entries of
\* d_Prompt_buffer that were all written since the previous estimate, the
\* estimation counter is 0 right after it, and the counter is within
\* 0..CN0_ESTIMATION_SAMPLES after every block.
C17_EstimateFromFullHistory ==
    [][IsWork =>
          /\ d_cn0_estimation_counter' \in 0..CN0_ESTIMATION_SAMPLES
          /\ path' = "estimate" =>
                 /\ prompt_written = 0..(CN0_ESTIMATION_SAMPLES - 1)
                 /\ Cardinality(prompt_written) = CN0_ESTIMATION_SAMPLES
                 /\ d_cn0_estimation_counter' = 0]_vars

C17_Witness ==
    /\ path = "estimate"
    /\ d_cn0_estimation_counter = 0
    /\ prompt_written = {}
    /\ d_enable_tracking
    /\ n_work - start_at > 2 * CN0_ESTIMATION_SAMPLES + 2

\* the indices update_local_code reads at the first and at the last sample
\* of the block for the Early, Prompt and Late replicas; the phase grows
\* with the sample, so every other index lies between these
LocalCodeIndices ==
    {ca_code_index(early_late, i) :
        early_late \in {d_early_late_spc_chips, 0, -d_early_late_spc_chips},
        i \in {0, d_current_prn_length_samples - 1}}

\* C18 as claimed: in every TRACKING block each index into d_ca_code lies in
\* 0 .. GPS_L1_CA_CODE_LENGTH_CHIPS + 1.
C18_CodeIndexInTable ==
    [][(IsWork /\ path' \in {"track", "estimate"}) =>
          LocalCodeIndices \subseteq 0..(GPS_L1_CA_CODE_LENGTH_CHIPS + 1)]_vars

EstimateFails ==
    d_carrier_lock_test' < CARRIER_LOCK_THRESHOLD \/ d_CN0_SNV_dB_Hz' < MINIMUM_VALID_CN0

\* C20 as claimed: d_carrier_lock_fail_counter changes only in a block that
\* produces an estimate, by +1 when the estimate fails and by -1 (not below
\* 0) when it does not.
C20_FailCounterStep ==
    [][IsWork =>
          d_carrier_lock_fail_counter' =
              IF path' # "estimate" THEN d_carrier_lock_fail_counter
              ELSE IF EstimateFails THEN d_carrier_lock_fail_counter + 1
              ELSE IF d_carrier_lock_fail_counter > 0
                   THEN d_carrier_lock_fail_counter - 1 ELSE 0]_vars

\* C20 amended: as above, except that the failing estimate that takes the
\* counter above MAXIMUM_LOCK_FAIL_COUNTER resets it to 0.
C20_FailCounterStepOrReset ==
    [][IsWork =>
          d_carrier_lock_fail_counter' =
              IF path' # "estimate" THEN d_carrier_lock_fail_counter
              ELSE IF EstimateFails
                   THEN IF d_carrier_lock_fail_counter + 1 > MAXIMUM_LOCK_FAIL_COUNTER
                        THEN 0 ELSE d_carrier_lock_fail_counter + 1
              ELSE IF d_carrier_lock_fail_counter > 0
                   THEN d_carrier_lock_fail_counter - 1 ELSE 0]_vars

C20_Witness ==
    /\ path = "estimate"
    /\ d_carrier_lock_test < CARRIER_LOCK_THRESHOLD \/ d_CN0_SNV_dB_Hz < MINIMUM_VALID_CN0
    /\ d_carrier_lock_fail_counter = 0
    /\ ~d_enable_tracking
    /\ Len(queue_msgs) > 0 \/ ~d_queue

\* C21: when the PULL_IN block completes, the residual code and carrier
\* phases, the accumulated carrier and code phases and the lock-fail counter
\* are 0, whatever the session before start_tracking left in them.
C21_PullInStartsFromZero ==
    [][(IsWork /\ path' = "pull_in") =>
          /\ d_rem_code_phase_samples' = 0
          /\ d_rem_carr_phase_rad' = 0
          /\ d_acc_carrier_phase_rad' = 0
          /\ d_acc_code_phase_secs' = 0
          /\ d_carrier_lock_fail_counter' = 0]_vars

\* the PULL_IN block of a second session, started while the first one still
\* tracked (no loss of lock) and after its last estimate had failed
C21_Witness ==
    /\ path = "pull_in"
    /\ n_starts = 2
    /\ queue_msgs = <<>>
    /\ d_carrier_lock_test < CARRIER_LOCK_THRESHOLD
    /\ d_sample_counter > (CN0_ESTIMATION_SAMPLES + 2) * d_vector_length
    /\ d_carrier_lock_fail_counter = 0
    /\ d_acc_carrier_phase_rad = 0

\* C22: the block that declares loss of lock still runs to its end: it emits
\* the regular tracking record (the correlator's Prompt, the Doppler and the
\* C/N0), counts and consumes its block length and installs the next block
\* length; the zero-valued IDLE record comes with the block after it.
C22_LossOfLockBlockCompletes ==
    [][ /\ (IsWork /\ d_enable_tracking /\ ~d_enable_tracking') =>
             /\ path' = "estimate"
             /\ produced' = 1
             /\ out'.Prompt = d_Prompt'
             /\ out'.Carrier_Doppler_hz = d_carrier_doppler_hz'
             /\ out'.CN0_dB_hz = d_CN0_SNV_dB_Hz'
             /\ out'.PRN = d_acquisition_gnss_synchro.PRN
             /\ ~ZeroValued(out')
             /\ d_sample_counter' = d_sample_counter + d_current_prn_length_samples
             /\ consumed' = d_current_prn_length_samples
             /\ d_current_prn_length_samples' =
                    Round(T_prn_samples(d_code_freq_chips') + d_rem_code_phase_samples')
        /\ (IsWork /\ path = "estimate" /\ ~d_enable_tracking) =>
             /\ path' = "idle"
             /\ ZeroValued(out') ]_vars

\* the first IDLE block after the block that declared loss of lock
C22_Witness ==
    /\ path = "idle"
    /\ ZeroValued(out)
    /\ ~d_enable_tracking
    /\ Len(queue_msgs) = 1
    /\ d_cn0_estimation_counter = 0
    /\ n_starts = 1
    /\ out.PRN = 0
    /\ consumed = d_current_prn_length_samples

\* C23 as claimed: a NaN block leaves the Doppler, the code frequency, the
\* residual code and carrier phases, the accumulators, the block length, the
\* estimation counter and the lock-fail counter as they were.
C23_NaNBlockFrame ==
    [][(IsWork /\ path' = "nan") =>
          /\ NoLoopUpdate
          /\ d_rem_code_phase_samples' = d_rem_code_phase_samples]_vars

\* C24 as claimed: the PULL_IN block consumes a positive number of samples,
\* and no more than the 2 * d_vector_length that forecast asks for.
C24_PullInWithinForecast ==
    [][(IsWork /\ path' = "pull_in") =>
          /\ consumed' > 0
          /\ consumed' <= 2 * d_vector_length]_vars

\* the number of TRACKING blocks of the session so far, after a step that is
\* one of them (the PULL_IN block is the first block of the session)
TrackingBlocksOfSession == n_work' - start_at - 1

\* C25 as claimed: in the first session of a channel every TRACKING block
\* stores its Prompt in the window, and the windows follow each other
\* without a gap: the estimates come with the TRACKING blocks number
\* CN0_ESTIMATION_SAMPLES, 2 * CN0_ESTIMATION_SAMPLES, ...
C25_EveryPromptInOneWindow ==
    [][(IsWork /\ n_starts = 1 /\ path' \in {"track", "estimate"}) =>
          /\ d_Prompt_buffer'[(TrackingBlocksOfSession - 1) % CN0_ESTIMATION_SAMPLES]
                 = d_Prompt'
          /\ path' = "estimate" <=>
                 TrackingBlocksOfSession % CN0_ESTIMATION_SAMPLES = 0]_vars

\* C26 as claimed: an estimate is computed from Prompts correlated since the
\* most recent start_tracking only.  The window holds CN0_ESTIMATION_SAMPLES
\* Prompts, one per TRACKING block, and the PULL_IN block correlates nothing:
\* the session has had that many TRACKING blocks before the block of the
\* estimate.
C26_EstimateFromThisSession ==
    [][(IsWork /\ path' = "estimate") =>
          n_work - start_at - 1 >= CN0_ESTIMATION_SAMPLES]_vars

\* the value start_tracking computes for the block length from the
\* acquisition Doppler
StartedPrnLength == Round(T_prn_mod_samples(d_acq_carrier_doppler_hz))

\* between the completion of start_tracking and the PULL_IN block the block
\* length is the one start_tracking computed
StartedLengthKept ==
    (work_pc = "done" /\ start_pc = "done" /\ d_enable_tracking /\ d_pull_in)
        => d_current_prn_length_samples = StartedPrnLength

\* an invocation of general_work that begins while start_tracking is in
\* flight and finds enabled set also finds pull_in set
PullInSeenWithEnabled ==
    (IsWork /\ start_pc # "done" /\ d_enable_tracking) => d_pull_in

=============================================================================
